---------------------------- MODULE Spec2Model ----------------------------
(***************************************************************************)
(* A model of the packr2 rectangle packers (SplitPacker, SkylinePacker,    *)
(* StripPacker), of the multi-heuristic driver `pack` and of the bin-size  *)
(* optimizer of optimize.rs.                                               *)
(*                                                                         *)
(* A packer is one record `packer` whose `kind` field names the strategy;  *)
(* every method of the Packer trait is a pure operator from the packer     *)
(* record (and the arguments) to the new packer record and the value       *)
(* returned.  Sequences are 1-based here and 0-based in the source.        *)
(***************************************************************************)
EXTENDS Integers, Sequences, FiniteSets, TLC

VARIABLES
    packer,        \* the packer object (SplitPacker | SkylinePacker | StripPacker)
    panicked,      \* an assert! of the source has failed
    pc,            \* position of the caller
    placed,        \* successful inserts since new/reset: request and Rectf returned
    last,          \* the latest call made on the packer: new, insert or reset,
                   \* and whether it returned Some
    reqs,          \* replay harness: the insert requests made so far
    log1,          \* replay harness: results on the freshly constructed packer
    log2,          \* replay harness: results after reset(None)
    inputs,        \* pack: the caller's Vec<RectInput<K>>
    cmp,           \* pack: index into RECT_SORT_FUNCTIONS of the running trial
    iterator,      \* pack: position of inputs.iter()
    atlas,         \* pack: atlas counter
    current,       \* pack: placement list of the running trial
    current_area,  \* pack: area total of the running trial
    output,        \* pack: best placement list so far
    output_area,   \* pack: area total of `output`
    trials,        \* pack: (area total, list) of every finished trial, in order
    ordering,      \* optimizer: the rectangles, in the order they are inserted
    starting_bin,  \* optimizer: the maximum bin
    discard_step,  \* optimizer: the step at which the search stops
    result,        \* optimizer: the PackingResult returned
    search,        \* optimizer: the locals of the bin-size search loop
    text,          \* Chars: the characters (code points) of the source string
    chars,         \* Chars: the iterator object
    yielded,       \* Chars: the values returned by next() so far
    born,          \* split packer: the free spaces in the order they were created
    tried,         \* split packer: the last request, the space it took, its splits
    sought         \* skyline packer: the last request and what find_skyline returned

packerVars == <<packer, panicked>>
apiVars    == <<placed, last>>
replayVars == <<reqs, log1, log2>>
packVars   == <<inputs, cmp, iterator, atlas, current, current_area, output,
                output_area, trials>>
optVars    == <<ordering, starting_bin, discard_step, result, search>>
vars       == <<packer, panicked, pc, placed, last, reqs, log1, log2, inputs,
                cmp, iterator, atlas, current, current_area, output,
                output_area, trials, ordering, starting_bin, discard_step,
                result, search, text, chars, yielded, born, tried, sought>>
charVars   == <<text, chars, yielded>>
splitVars  == <<born, tried>>
skyVars    == <<sought>>

----------------------------------------------------------------------------
(* Bounds of the model. *)

\* atlas widths range over 0..MaxWidth, atlas heights over 0..MaxHeight
MaxWidth == 2
MaxHeight == 2
\* requested sides range over 1..MaxSide
MaxSide == 3
\* the replay harness inserts at most MaxReplay rectangles
MaxReplay == 3
\* pack is given at most MaxInputs rectangles, of sides 1..PackWidth, and a
\* packer of PackWidth x PackHeight
MaxInputs == 3
PackWidth == 2
PackHeight == 1
\* the skyline scenario makes at most MaxScenario inserts
MaxScenario == 4
\* the split packer is watched on a bin of OrderBin by OrderBin
OrderBin == 3
\* the bin-size search loop starts from bins of sides up to SearchBin
SearchBin == 5
\* the skyline packer is watched on a bin of SkyBin by SkyBin
SkyBin == 4
\* insert_and_split is applied to sides and offsets up to SplitSide
SplitSide == 3
\* the source string of Chars has at most MaxStr characters
MaxStr == 3
\* the optimizer is given at most MaxOrdering rectangles of sides 1..OptSide
\* and a maximum bin of sides 1..OptBin
MaxOrdering == 2
OptSide == 2
OptBin == 3

(* core::u32::MAX and core::u64::MAX.  They are only ever compared with     *)
(* counts, coordinates and areas, all far below them, so the largest        *)
(* integer of the checker stands for both.                                  *)
U32_MAX == 2147483647
U64_MAX == 2147483647

----------------------------------------------------------------------------
(* Geometry primitives (lib.rs). *)

Max(a, b) == IF a >= b THEN a ELSE b

Size(w, h) == [w |-> w, h |-> h]

SIZE_ZERO == Size(0, 0)

Rect(x, y, w, h) == [x |-> x, y |-> y, w |-> w, h |-> h]

Rectf(x, y, w, h, flipped) ==
    [x |-> x, y |-> y, w |-> w, h |-> h, flipped |-> flipped]

from_rect(r, flipped) == Rectf(r.x, r.y, r.w, r.h, flipped)

\* Option<Rectf>
None == [some |-> FALSE, rect |-> Rectf(0, 0, 0, 0, FALSE)]
Some(r) == [some |-> TRUE, rect |-> r]

\* Option<Size>, the argument of reset
NoResize == [some |-> FALSE, size |-> SIZE_ZERO]
Resize(w, h) == [some |-> TRUE, size |-> Size(w, h)]

area(s) == s.w * s.h

perimeter(s) == 2 * s.w + 2 * s.h

max_side(s) == IF s.h > s.w THEN s.h ELSE s.w

min_side(s) == IF s.h < s.w THEN s.h ELSE s.w

bottom(r) == r.y + r.h - 1

\* the box grown by the size of the rectangle, its position left out
expand_with_size(s, r) == Size(Max(s.w, r.w), Max(s.h, r.h))

expand_with(s, r) == Size(Max(s.w, r.x + r.w), Max(s.h, r.y + r.h))

PackerConfig(w, h, flip) ==
    [max_width |-> w, max_height |-> h, allow_flipping |-> flip]

with_size(config, resize) ==
    IF resize.some
    THEN [config EXCEPT !.max_width = resize.size.w,
                        !.max_height = resize.size.h]
    ELSE config

RemoveAt(s, i) == SubSeq(s, 1, i - 1) \o SubSeq(s, i + 1, Len(s))

InsertAt(s, i, e) == SubSeq(s, 1, i - 1) \o <<e>> \o SubSeq(s, i, Len(s))

----------------------------------------------------------------------------
(* SplitPacker (split_packer.rs). *)

\* Splits: `count` and the first `count` entries of `spaces`; the entries
\* beyond `count` are uninitialised in the source and never read.
Splits_failed == [count |-> U32_MAX, spaces |-> <<>>]

Splits_none == [count |-> 0, spaces |-> <<>>]

Splits_one(r) == [count |-> 1, spaces |-> <<r>>]

Splits_two(a, b) == [count |-> 2, spaces |-> <<a, b>>]

\* better_than accepting an equal number of remainder spaces
better_than_or_equal(a, b) == a.count <= b.count

better_than(a, b) == a.count < b.count

is_valid(s) == s.count <= 2

\* insert_and_split with `r.y += h` left out of the single split below the
\* placement
insert_and_split_stale(w, h, sp) ==
    IF sp.w < w \/ sp.h < h THEN Splits_failed
    ELSE LET free_w == sp.w - w
             free_h == sp.h - h
         IN  IF free_w = 0 /\ free_h = 0 THEN Splits_none
             ELSE IF free_w > 0 /\ free_h = 0
                  THEN Splits_one(Rect(sp.x + w, sp.y, sp.w - w, sp.h))
             ELSE IF free_w = 0 /\ free_h > 0
                  THEN Splits_one(Rect(sp.x, sp.y, sp.w, sp.h - h))
             ELSE IF free_w > free_h
                  THEN Splits_two(Rect(sp.x + w, sp.y, free_w, sp.h),
                                  Rect(sp.x, sp.y + h, w, free_h))
             ELSE Splits_two(Rect(sp.x, sp.y + h, sp.w, free_h),
                             Rect(sp.x + w, sp.y, free_w, h))

\* insert_and_split failing only when the space is too small both ways
insert_and_split_loose(w, h, sp) ==
    IF sp.w < w /\ sp.h < h THEN Splits_failed
    ELSE LET free_w == sp.w - w
             free_h == sp.h - h
         IN  IF free_w = 0 /\ free_h = 0 THEN Splits_none
             ELSE IF free_w > 0 /\ free_h = 0
                  THEN Splits_one(Rect(sp.x + w, sp.y, sp.w - w, sp.h))
             ELSE IF free_w = 0 /\ free_h > 0
                  THEN Splits_one(Rect(sp.x, sp.y + h, sp.w, sp.h - h))
             ELSE IF free_w > free_h
                  THEN Splits_two(Rect(sp.x + w, sp.y, free_w, sp.h),
                                  Rect(sp.x, sp.y + h, w, free_h))
             ELSE Splits_two(Rect(sp.x, sp.y + h, sp.w, free_h),
                             Rect(sp.x + w, sp.y, free_w, h))

\* insert_and_split splitting along the vertical axis on equal leftovers too
insert_and_split_flat(w, h, sp) ==
    IF sp.w < w \/ sp.h < h THEN Splits_failed
    ELSE LET free_w == sp.w - w
             free_h == sp.h - h
         IN  IF free_w = 0 /\ free_h = 0 THEN Splits_none
             ELSE IF free_w > 0 /\ free_h = 0
                  THEN Splits_one(Rect(sp.x + w, sp.y, sp.w - w, sp.h))
             ELSE IF free_w = 0 /\ free_h > 0
                  THEN Splits_one(Rect(sp.x, sp.y + h, sp.w, sp.h - h))
             ELSE IF free_w >= free_h
                  THEN Splits_two(Rect(sp.x + w, sp.y, free_w, sp.h),
                                  Rect(sp.x, sp.y + h, w, free_h))
             ELSE Splits_two(Rect(sp.x, sp.y + h, sp.w, free_h),
                             Rect(sp.x + w, sp.y, free_w, h))

insert_and_split(w, h, sp) ==
    IF sp.w < w \/ sp.h < h THEN Splits_failed
    ELSE LET free_w == sp.w - w
             free_h == sp.h - h
         IN  IF free_w = 0 /\ free_h = 0 THEN Splits_none
             ELSE IF free_w > 0 /\ free_h = 0
                  THEN Splits_one(Rect(sp.x + w, sp.y, sp.w - w, sp.h))
             ELSE IF free_w = 0 /\ free_h > 0
                  THEN Splits_one(Rect(sp.x, sp.y + h, sp.w, sp.h - h))
             ELSE IF free_w > free_h
                  THEN Splits_two(Rect(sp.x + w, sp.y, free_w, sp.h),
                                  Rect(sp.x, sp.y + h, w, free_h))
             ELSE Splits_two(Rect(sp.x, sp.y + h, sp.w, free_h),
                             Rect(sp.x + w, sp.y, free_w, h))

Recta(r) == [rect |-> r, area |-> r.w * r.h]

\* spaces.sort_by(|a, b| a.area.cmp(&b.area)): a stable sort, equal areas
\* keep their order.
RECURSIVE sort_by_area_insert(_, _)
sort_by_area_insert(head, e) ==
    CHOOSE out \in
      {IF sorted = <<>> THEN <<e>>
       ELSE IF sorted[Len(sorted)].area <= e.area THEN Append(sorted, e)
       ELSE Append(sort_by_area_insert(SubSeq(sorted, 1, Len(sorted) - 1), e),
                   sorted[Len(sorted)])
       : sorted \in {head}} : TRUE

\* the free-space list left as pushed
sort_by_area_skipped(spaces) == spaces

RECURSIVE sort_by_area(_)
sort_by_area(spaces) ==
    CHOOSE out \in
      {IF s = <<>> THEN <<>>
       ELSE sort_by_area_insert(sort_by_area(SubSeq(s, 1, Len(s) - 1)),
                                s[Len(s)])
       : s \in {spaces}} : TRUE

RECURSIVE push_splits(_, _, _)
push_splits(spaces, splits, s) ==
    CHOOSE out \in
      {IF s > splits.count THEN sp
       ELSE push_splits(Append(sp, Recta(splits.spaces[s])), splits, s + 1)
       : sp \in {spaces}} : TRUE

SplitPacker_new(config) ==
    [kind |-> "split",
     config |-> config,
     used_area |-> SIZE_ZERO,
     spaces |-> <<Recta(Rect(0, 0, config.max_width, config.max_width))>>]

\* accept_insert returning the requested w and h unswapped when flipped
accept_insert_unswapped(p, i, splits, flipped, w, h) ==
    LET candidate_space == p.spaces[i]
        r == Rectf(candidate_space.rect.x, candidate_space.rect.y, w, h, flipped)
    IN  [packer |-> [p EXCEPT
                        !.spaces = sort_by_area(
                                     push_splits(RemoveAt(p.spaces, i), splits, 1)),
                        !.used_area = expand_with(p.used_area, r)],
         res |-> Some(r),
         panic |-> FALSE]

\* the closure accept_insert of SplitPacker::insert
accept_insert(p, i, splits, flipped, w, h) ==
    LET candidate_space == p.spaces[i]
        r == IF flipped
             THEN Rectf(candidate_space.rect.x, candidate_space.rect.y, h, w, flipped)
             ELSE Rectf(candidate_space.rect.x, candidate_space.rect.y, w, h, flipped)
    IN  [packer |-> [p EXCEPT
                        !.spaces = sort_by_area(
                                     push_splits(RemoveAt(p.spaces, i), splits, 1)),
                        !.used_area = expand_with(p.used_area, r)],
         res |-> Some(r),
         panic |-> FALSE]

RECURSIVE SplitPacker_insert_from(_, _, _, _)
SplitPacker_insert_from(p, i, w, h) ==
    IF i > Len(p.spaces) THEN [packer |-> p, res |-> None, panic |-> FALSE]
    ELSE LET candidate_space == p.spaces[i]
             normal == insert_and_split(w, h, candidate_space.rect)
             flipped == insert_and_split(h, w, candidate_space.rect)
         IN  IF p.config.allow_flipping
             THEN IF is_valid(normal) /\ is_valid(flipped)
                  THEN IF better_than(flipped, normal)
                       THEN accept_insert(p, i, flipped, TRUE, w, h)
                       ELSE accept_insert(p, i, normal, FALSE, w, h)
                  ELSE IF is_valid(normal)
                       THEN accept_insert(p, i, normal, FALSE, w, h)
                  ELSE IF is_valid(flipped)
                       THEN accept_insert(p, i, flipped, TRUE, w, h)
                  ELSE SplitPacker_insert_from(p, i + 1, w, h)
             ELSE IF is_valid(normal)
                  THEN accept_insert(p, i, normal, FALSE, w, h)
                  ELSE SplitPacker_insert_from(p, i + 1, w, h)

\* SplitPacker::insert removing every candidate space it examines, before it
\* knows whether the rectangle fits
SplitPacker_insert_consuming(p, w, h) ==
    LET r == SplitPacker_insert_from(p, 1, w, h)
    IN  IF r.res.some THEN r ELSE [r EXCEPT !.packer.spaces = <<>>]

SplitPacker_insert(p, w, h) == SplitPacker_insert_from(p, 1, w, h)

SplitPacker_reset(p, resize) ==
    LET config == with_size(p.config, resize)
    IN  [p EXCEPT !.config = config,
                  !.used_area = SIZE_ZERO,
                  !.spaces = <<Recta(Rect(0, 0, config.max_width,
                                          config.max_height))>>]

----------------------------------------------------------------------------
(* SkylinePacker (skyline_packer.rs). *)

Skyline(x, y, w) == [x |-> x, y |-> y, w |-> w]

skyline_left(s) == s.x

skyline_right(s) == s.x + s.w - 1

SkylinePacker_new(config) ==
    [kind |-> "skyline",
     config |-> config,
     skylines |-> <<Skyline(0, 0, config.max_width)>>,
     used_area |-> SIZE_ZERO]

\* the loop of can_put without the test of the right edge against max_width
RECURSIVE can_put_loop_wide(_, _, _, _)
can_put_loop_wide(p, i, rect0, width_left) ==
    CHOOSE out \in
      {IF (rect.y + rect.h) > p.config.max_height
       THEN [some |-> FALSE, rect |-> rect, panic |-> FALSE]
       ELSE IF p.skylines[i].w >= width_left
       THEN [some |-> TRUE, rect |-> rect, panic |-> FALSE]
       ELSE IF ~(i + 1 <= Len(p.skylines))
       THEN [some |-> FALSE, rect |-> rect, panic |-> TRUE]
       ELSE can_put_loop_wide(p, i + 1, rect, width_left - p.skylines[i].w)
       : rect \in {[rect0 EXCEPT !.y = Max(rect0.y, p.skylines[i].y)]}} : TRUE

\* Option<Rect> of can_put, or the failed assert!(i < self.skylines.len())
RECURSIVE can_put_loop(_, _, _, _)
can_put_loop(p, i, rect0, width_left) ==
    CHOOSE out \in
      {IF (rect.x + rect.w) > p.config.max_width
          \/ (rect.y + rect.h) > p.config.max_height
       THEN [some |-> FALSE, rect |-> rect, panic |-> FALSE]
       ELSE IF p.skylines[i].w >= width_left
       THEN [some |-> TRUE, rect |-> rect, panic |-> FALSE]
       ELSE IF ~(i + 1 <= Len(p.skylines))
       THEN [some |-> FALSE, rect |-> rect, panic |-> TRUE]
       ELSE can_put_loop(p, i + 1, rect, width_left - p.skylines[i].w)
       : rect \in {[rect0 EXCEPT !.y = Max(rect0.y, p.skylines[i].y)]}} : TRUE

can_put(p, i, w, h) == can_put_loop(p, i, Rect(p.skylines[i].x, 0, w, h), w)

\* one orientation of one iteration that keeps the first position found
find_skyline_try_first(p, i, best, w, h) ==
    CHOOSE out \in
      {IF best.panic THEN best
       ELSE IF r.panic THEN [best EXCEPT !.panic = TRUE]
       ELSE IF r.some /\ best.index = 0
       THEN [bottom |-> bottom(r.rect), width |-> p.skylines[i].w,
             index |-> i, rect |-> r.rect, panic |-> FALSE]
       ELSE best
       : r \in {can_put(p, i, w, h)}} : TRUE

\* one orientation of one iteration of the loop of find_skyline
find_skyline_try(p, i, best, w, h) ==
    CHOOSE out \in
      {IF best.panic THEN best
       ELSE IF r.panic THEN [best EXCEPT !.panic = TRUE]
       ELSE IF r.some
               /\ (bottom(r.rect) < best.bottom
                   \/ (bottom(r.rect) = best.bottom
                       /\ p.skylines[i].w < best.width))
       THEN [bottom |-> bottom(r.rect), width |-> p.skylines[i].w,
             index |-> i, rect |-> r.rect, panic |-> FALSE]
       ELSE best
       : r \in {can_put(p, i, w, h)}} : TRUE

RECURSIVE find_skyline_loop(_, _, _, _, _)
find_skyline_loop(p, i, best, w, h) ==
    IF i > Len(p.skylines) THEN best
    ELSE CHOOSE out \in
           {find_skyline_loop(p, i + 1, both, w, h) :
              both \in {IF p.config.allow_flipping
                        THEN find_skyline_try(p, i, normal, h, w)
                        ELSE normal
                        : normal \in {find_skyline_try(p, i, best, w, h)}}} : TRUE

\* index 0 stands for None
find_skyline(p, w, h) ==
    find_skyline_loop(p, 1,
                      [bottom |-> U32_MAX, width |-> U32_MAX, index |-> 0,
                       rect |-> Rect(0, 0, 0, 0), panic |-> FALSE],
                      w, h)

\* the segments after the new one left as they are
split_loop_keep(skylines, i) == [skylines |-> skylines, panic |-> FALSE]

\* the while loop of split, at the fixed position i
RECURSIVE split_loop(_, _)
split_loop(skylines, i) ==
    CHOOSE out \in
      {IF ~(i <= Len(sk)) THEN [skylines |-> sk, panic |-> FALSE]
       ELSE IF ~(skyline_left(sk[i - 1]) <= skyline_left(sk[i]))
       THEN [skylines |-> sk, panic |-> TRUE]
       ELSE IF skyline_left(sk[i]) <= skyline_right(sk[i - 1])
       THEN LET shrink == skyline_right(sk[i - 1]) - skyline_left(sk[i]) + 1
            IN  IF sk[i].w <= shrink
                THEN split_loop(RemoveAt(sk, i), i)
                ELSE [skylines |-> [sk EXCEPT ![i].x = sk[i].x + shrink,
                                              ![i].w = sk[i].w - shrink],
                      panic |-> FALSE]
       ELSE [skylines |-> sk, panic |-> FALSE]
       : sk \in {skylines}} : TRUE

split(p, index, rect) ==
    LET skyline == Skyline(rect.x, bottom(rect) + 1, rect.w)
    IN  IF ~(skyline_right(skyline) <= p.config.max_width)
           \/ ~(skyline.y <= p.config.max_height)
        THEN [skylines |-> p.skylines, panic |-> TRUE]
        ELSE split_loop(InsertAt(p.skylines, index, skyline), index + 1)

RECURSIVE merge_loop(_, _)
merge_loop(skylines, i) ==
    CHOOSE out \in
      {IF ~(i <= Len(sk)) THEN sk
       ELSE IF sk[i - 1].y = sk[i].y
       THEN merge_loop(RemoveAt([sk EXCEPT ![i - 1].w = sk[i - 1].w + sk[i].w],
                                i), i)
       ELSE merge_loop(sk, i + 1)
       : sk \in {skylines}} : TRUE

\* no merging at all
merge_none(sk) == sk

merge(sk) == merge_loop(sk, 2)

SkylinePacker_insert(p, w, h) ==
    CHOOSE out \in
      {IF found.panic THEN [packer |-> p, res |-> None, panic |-> TRUE]
       ELSE IF found.index = 0 THEN [packer |-> p, res |-> None, panic |-> FALSE]
       ELSE CHOOSE done \in
              {IF cut.panic THEN [packer |-> p, res |-> None, panic |-> TRUE]
               ELSE [packer |-> [p EXCEPT
                                   !.skylines = merge(cut.skylines),
                                   !.used_area = expand_with(p.used_area,
                                                             found.rect)],
                     res |-> Some(from_rect(found.rect, w # found.rect.w)),
                     panic |-> FALSE]
               : cut \in {split(p, found.index, found.rect)}} : TRUE
       : found \in {find_skyline(p, w, h)}} : TRUE

SkylinePacker_reset(p, resize) ==
    LET config == with_size(p.config, resize)
    IN  [p EXCEPT !.config = config,
                  !.used_area = SIZE_ZERO,
                  !.skylines = <<Skyline(0, 0, config.max_width)>>]

----------------------------------------------------------------------------
(* StripPacker (strip_packer.rs). *)

StripPacker_new(config) ==
    [kind |-> "strip",
     config |-> config,
     cursor |-> <<0, 0>>,
     row_height |-> 0,
     overflowed |-> FALSE,
     used_area |-> SIZE_ZERO]

\* insert without the test of required_height against max_height
StripPacker_insert_tall(p, w, h) ==
    IF w > p.config.max_width THEN [packer |-> p, res |-> None, panic |-> FALSE]
    ELSE LET new_row == p.cursor[1] + w > p.config.max_width
             cursor == IF new_row THEN <<0, p.cursor[2] + p.row_height>>
                       ELSE p.cursor
             row_height == Max(IF new_row THEN 0 ELSE p.row_height, h)
             rect == Rectf(cursor[1], cursor[2], w, h, FALSE)
         IN  [packer |-> [p EXCEPT
                            !.cursor = <<cursor[1] + w, cursor[2]>>,
                            !.row_height = row_height,
                            !.used_area = expand_with(p.used_area, rect)],
              res |-> Some(rect),
              panic |-> FALSE]

\* insert putting cursor and row_height back when the height check fails
StripPacker_insert_restoring(p, w, h) ==
    IF w > p.config.max_width THEN [packer |-> p, res |-> None, panic |-> FALSE]
    ELSE LET new_row == p.cursor[1] + w > p.config.max_width
             cursor == IF new_row THEN <<0, p.cursor[2] + p.row_height>>
                       ELSE p.cursor
             row_height == Max(IF new_row THEN 0 ELSE p.row_height, h)
             required_height == cursor[2] + row_height
             rect == Rectf(cursor[1], cursor[2], w, h, FALSE)
         IN  IF required_height > p.config.max_height
             THEN [packer |-> [p EXCEPT !.overflowed = TRUE],
                   res |-> None,
                   panic |-> FALSE]
             ELSE [packer |-> [p EXCEPT
                                 !.cursor = <<cursor[1] + w, cursor[2]>>,
                                 !.row_height = row_height,
                                 !.used_area = expand_with(p.used_area, rect)],
                   res |-> Some(rect),
                   panic |-> FALSE]

StripPacker_insert(p, w, h) ==
    IF w > p.config.max_width THEN [packer |-> p, res |-> None, panic |-> FALSE]
    ELSE LET new_row == p.cursor[1] + w > p.config.max_width
             cursor == IF new_row THEN <<0, p.cursor[2] + p.row_height>>
                       ELSE p.cursor
             row_height == Max(IF new_row THEN 0 ELSE p.row_height, h)
             required_height == cursor[2] + row_height
             rect == Rectf(cursor[1], cursor[2], w, h, FALSE)
         IN  IF required_height > p.config.max_height
             THEN [packer |-> [p EXCEPT !.cursor = cursor,
                                        !.row_height = row_height,
                                        !.overflowed = TRUE],
                   res |-> None,
                   panic |-> FALSE]
             ELSE [packer |-> [p EXCEPT
                                 !.cursor = <<cursor[1] + w, cursor[2]>>,
                                 !.row_height = row_height,
                                 !.used_area = expand_with(p.used_area, rect)],
                   res |-> Some(rect),
                   panic |-> FALSE]

\* the ratio of rows used to max_height, the overflowed flag left out
fill_ratio_unflagged(p) ==
    [num |-> p.cursor[2] + p.row_height, den |-> p.config.max_height]

\* fill_ratio: the f32 returned, as the fraction num / den it is computed from
fill_ratio(p) ==
    IF p.overflowed THEN [num |-> 1, den |-> 1]
    ELSE [num |-> p.cursor[2] + p.row_height, den |-> p.config.max_height]

StripPacker_reset(p, resize) ==
    [p EXCEPT !.config = with_size(p.config, resize),
              !.cursor = <<0, 0>>,
              !.row_height = 0,
              !.overflowed = FALSE,
              !.used_area = SIZE_ZERO]

----------------------------------------------------------------------------
(* The Packer trait (lib.rs), dispatched on the strategy. *)

Packer_new(kind, config) ==
    CASE kind = "split" -> SplitPacker_new(config)
      [] kind = "skyline" -> SkylinePacker_new(config)
      [] kind = "strip" -> StripPacker_new(config)

Packer_insert(p, w, h) ==
    CASE p.kind = "split" -> SplitPacker_insert(p, w, h)
      [] p.kind = "skyline" -> SkylinePacker_insert(p, w, h)
      [] p.kind = "strip" -> StripPacker_insert(p, w, h)

Packer_reset(p, resize) ==
    CASE p.kind = "split" -> SplitPacker_reset(p, resize)
      [] p.kind = "skyline" -> SkylinePacker_reset(p, resize)
      [] p.kind = "strip" -> StripPacker_reset(p, resize)

used_area(p) == p.used_area

----------------------------------------------------------------------------
(* Direct use of one packer: new, then any sequence of insert and reset.   *)

Kinds == {"split", "skyline", "strip"}

Configs ==
    {PackerConfig(w, h, f) : w \in 0..MaxWidth, h \in 0..MaxHeight, f \in BOOLEAN}

Resizes == {NoResize} \cup {Resize(w, h) : w \in 0..MaxWidth, h \in 0..MaxHeight}

Sides == 1..MaxSide

Call(op, some) == [op |-> op, some |-> some]

Placement(w, h, rect) == [req |-> Size(w, h), rect |-> rect]

ApiIdle == placed = <<>> /\ last = Call("new", FALSE)

ReplayIdle == reqs = <<>> /\ log1 = <<>> /\ log2 = <<>>

PackIdle ==
    /\ inputs = <<>>
    /\ cmp = 1
    /\ iterator = 1
    /\ atlas = 0
    /\ current = <<>>
    /\ current_area = 0
    /\ output = <<>>
    /\ output_area = U64_MAX
    /\ trials = <<>>

NotSearching ==
    [tried_dimension |-> "Both", candidate_bin |-> [w |-> 0, h |-> 0], step |-> 0,
     tries_before_discarding |-> 0, discard_step |-> 0]

OptIdle ==
    /\ ordering = <<>>
    /\ starting_bin = SIZE_ZERO
    /\ discard_step = 0
    /\ result = [kind |-> "None"]
    /\ search = NotSearching

CharsIdle ==
    /\ text = <<>>
    /\ chars = [src |-> <<>>, iter |-> 0, ptr |-> "null", ch |-> [some |-> FALSE]]
    /\ yielded = <<>>

Untried(w, h, before) ==
    [w |-> w, h |-> h, done |-> FALSE, space |-> Rect(0, 0, 0, 0),
     splits |-> Splits_none, rect |-> Rectf(0, 0, 0, 0, FALSE), before |-> before]

SplitIdle ==
    /\ born = <<>>
    /\ tried = Untried(0, 0, <<>>)

Unsought ==
    [w |-> 0, h |-> 0, done |-> FALSE, before |-> <<>>,
     index |-> 0, rect |-> Rect(0, 0, 0, 0)]

SkyIdle == sought = Unsought

Init ==
    /\ pc = "api"
    /\ \E kind \in Kinds, config \in Configs : packer = Packer_new(kind, config)
    /\ panicked = FALSE
    /\ ApiIdle
    /\ ReplayIdle
    /\ PackIdle
    /\ OptIdle
    /\ CharsIdle
    /\ SplitIdle
    /\ SkyIdle

\* the caller's view of one insert call that returned r
ApiInsert(r, w, h) ==
    /\ packer' = r.packer
    /\ panicked' = r.panic
    /\ placed' = IF r.res.some THEN Append(placed, Placement(w, h, r.res.rect))
                 ELSE placed
    /\ last' = Call("insert", r.res.some)
    /\ UNCHANGED <<pc, replayVars, packVars, optVars, charVars, splitVars, skyVars>>

\* the caller's view of one reset call
ApiReset(p) ==
    /\ packer' = p
    /\ placed' = <<>>
    /\ last' = Call("reset", FALSE)
    /\ UNCHANGED <<panicked, pc, replayVars, packVars, optVars, charVars, splitVars, skyVars>>

SplitInsert(w, h) ==
    /\ pc = "api" /\ ~panicked /\ packer.kind = "split"
    /\ \E r \in {SplitPacker_insert(packer, w, h)} : ApiInsert(r, w, h)

SkylineInsert(w, h) ==
    /\ pc = "api" /\ ~panicked /\ packer.kind = "skyline"
    /\ \E r \in {SkylinePacker_insert(packer, w, h)} : ApiInsert(r, w, h)

StripInsert(w, h) ==
    /\ pc = "api" /\ ~panicked /\ packer.kind = "strip"
    /\ \E r \in {StripPacker_insert(packer, w, h)} : ApiInsert(r, w, h)

SplitReset(resize) ==
    /\ pc = "api" /\ ~panicked /\ packer.kind = "split"
    /\ ApiReset(SplitPacker_reset(packer, resize))

SkylineReset(resize) ==
    /\ pc = "api" /\ ~panicked /\ packer.kind = "skyline"
    /\ ApiReset(SkylinePacker_reset(packer, resize))

StripReset(resize) ==
    /\ pc = "api" /\ ~panicked /\ packer.kind = "strip"
    /\ ApiReset(StripPacker_reset(packer, resize))

Next ==
    \/ \E w \in Sides, h \in Sides : SplitInsert(w, h)
    \/ \E w \in Sides, h \in Sides : SkylineInsert(w, h)
    \/ \E w \in Sides, h \in Sides : StripInsert(w, h)
    \/ \E resize \in Resizes : SplitReset(resize)
    \/ \E resize \in Resizes : SkylineReset(resize)
    \/ \E resize \in Resizes : StripReset(resize)

Spec == Init /\ [][Next]_vars

----------------------------------------------------------------------------
(* Replay: a sequence of inserts into a freshly constructed packer, then   *)
(* reset(None), then the same sequence again.                              *)

InitReplay ==
    /\ pc = "first"
    /\ \E kind \in Kinds, config \in Configs : packer = Packer_new(kind, config)
    /\ panicked = FALSE
    /\ ApiIdle
    /\ ReplayIdle
    /\ PackIdle
    /\ OptIdle
    /\ CharsIdle
    /\ SplitIdle
    /\ SkyIdle

ReplayFirst(w, h) ==
    /\ pc = "first" /\ ~panicked
    /\ Len(reqs) < MaxReplay
    /\ \E r \in {Packer_insert(packer, w, h)} :
           /\ packer' = r.packer
           /\ panicked' = r.panic
           /\ reqs' = Append(reqs, Size(w, h))
           /\ log1' = Append(log1, r.res)
    /\ UNCHANGED <<pc, log2, apiVars, packVars, optVars, charVars, splitVars, skyVars>>

ReplayReset ==
    /\ pc = "first" /\ ~panicked
    /\ packer' = Packer_reset(packer, NoResize)
    /\ pc' = "again"
    /\ UNCHANGED <<panicked, apiVars, replayVars, packVars, optVars, charVars, splitVars, skyVars>>

ReplayAgain ==
    /\ pc = "again" /\ ~panicked
    /\ Len(log2) < Len(reqs)
    /\ \E r \in {Packer_insert(packer, reqs[Len(log2) + 1].w,
                                  reqs[Len(log2) + 1].h)} :
           /\ packer' = r.packer
           /\ panicked' = r.panic
           /\ log2' = Append(log2, r.res)
    /\ UNCHANGED <<pc, reqs, log1, apiVars, packVars, optVars, charVars, splitVars, skyVars>>

NextReplay ==
    \/ \E w \in Sides, h \in Sides : ReplayFirst(w, h)
    \/ ReplayReset
    \/ ReplayAgain

SpecReplay == InitReplay /\ [][NextReplay]_vars

----------------------------------------------------------------------------
(* Scenario: a SkylinePacker of 10 x 10 with flipping enabled, given        *)
(* rectangles whose sides are 2 or 8.                                       *)

ScenarioSides == {2, 8}

InitScenario ==
    /\ pc = "scenario"
    /\ packer = SkylinePacker_new(PackerConfig(10, 10, TRUE))
    /\ panicked = FALSE
    /\ ApiIdle
    /\ ReplayIdle
    /\ PackIdle
    /\ OptIdle
    /\ CharsIdle
    /\ SplitIdle
    /\ SkyIdle

ScenarioInsert(w, h) ==
    /\ pc = "scenario" /\ ~panicked
    /\ Len(reqs) < MaxScenario
    /\ \E r \in {SkylinePacker_insert(packer, w, h)} :
           /\ packer' = r.packer
           /\ panicked' = r.panic
           /\ placed' = IF r.res.some
                        THEN Append(placed, Placement(w, h, r.res.rect))
                        ELSE placed
           /\ last' = Call("insert", r.res.some)
           /\ reqs' = Append(reqs, Size(w, h))
    /\ UNCHANGED <<pc, log1, log2, packVars, optVars, charVars, splitVars, skyVars>>

NextScenario == \E w \in ScenarioSides, h \in ScenarioSides : ScenarioInsert(w, h)

SpecScenario == InitScenario /\ [][NextScenario]_vars

(* Scenario: a StripPacker of 50 x 10, given rectangles 20 or 40 wide and  *)
(* 5 or 10 high.                                                            *)

StripScenarioWidths == {20, 40}

StripScenarioHeights == {5, 10}

InitStripScenario ==
    /\ pc = "strip_scenario"
    /\ packer = StripPacker_new(PackerConfig(50, 10, FALSE))
    /\ panicked = FALSE
    /\ ApiIdle
    /\ ReplayIdle
    /\ PackIdle
    /\ OptIdle
    /\ CharsIdle
    /\ SplitIdle
    /\ SkyIdle

StripScenarioInsert(w, h) ==
    /\ pc = "strip_scenario" /\ ~panicked
    /\ Len(reqs) < MaxScenario
    /\ \E r \in {StripPacker_insert(packer, w, h)} :
           /\ packer' = r.packer
           /\ panicked' = r.panic
           /\ placed' = IF r.res.some
                        THEN Append(placed, Placement(w, h, r.res.rect))
                        ELSE placed
           /\ last' = Call("insert", r.res.some)
           /\ reqs' = Append(reqs, Size(w, h))
    /\ UNCHANGED <<pc, log1, log2, packVars, optVars, charVars, splitVars, skyVars>>

StripScenarioReset ==
    /\ pc = "strip_scenario" /\ ~panicked
    /\ reqs # <<>>
    /\ packer' = StripPacker_reset(packer, NoResize)
    /\ placed' = <<>>
    /\ last' = Call("reset", FALSE)
    /\ reqs' = <<>>
    /\ UNCHANGED <<panicked, pc, log1, log2, packVars, optVars, charVars,
                   splitVars, skyVars>>

NextStripScenario ==
    \/ \E w \in StripScenarioWidths, h \in StripScenarioHeights :
           StripScenarioInsert(w, h)
    \/ StripScenarioReset

SpecStripScenario == InitStripScenario /\ [][NextStripScenario]_vars

(* Scenario: a SplitPacker of 100 x 100 with flipping disabled, given      *)
(* rectangles whose sides are 40 or 60.                                    *)

SplitScenarioSides == {40, 60}

InitSplitScenario ==
    /\ pc = "split_scenario"
    /\ packer = SplitPacker_new(PackerConfig(100, 100, FALSE))
    /\ panicked = FALSE
    /\ ApiIdle
    /\ ReplayIdle
    /\ PackIdle
    /\ OptIdle
    /\ CharsIdle
    /\ SplitIdle
    /\ SkyIdle

SplitScenarioInsert(w, h) ==
    /\ pc = "split_scenario" /\ ~panicked
    /\ Len(reqs) < MaxScenario
    /\ \E r \in {SplitPacker_insert(packer, w, h)} :
           /\ packer' = r.packer
           /\ panicked' = r.panic
           /\ placed' = IF r.res.some
                        THEN Append(placed, Placement(w, h, r.res.rect))
                        ELSE placed
           /\ last' = Call("insert", r.res.some)
           /\ reqs' = Append(reqs, Size(w, h))
    /\ UNCHANGED <<pc, log1, log2, packVars, optVars, charVars, splitVars, skyVars>>

NextSplitScenario ==
    \E w \in SplitScenarioSides, h \in SplitScenarioSides :
        SplitScenarioInsert(w, h)

SpecSplitScenario == InitSplitScenario /\ [][NextSplitScenario]_vars

\* The split packer on a bin of OrderBin by OrderBin, with the creation order
\* of its free spaces and the candidate space of each insert recorded.
InitSplitOrder ==
    /\ pc = "split_order"
    /\ \E f \in BOOLEAN : packer = SplitPacker_new(PackerConfig(OrderBin, OrderBin, f))
    /\ panicked = FALSE
    /\ ApiIdle
    /\ ReplayIdle
    /\ PackIdle
    /\ OptIdle
    /\ CharsIdle
    /\ SkyIdle
    /\ born = <<Rect(0, 0, OrderBin, OrderBin)>>
    /\ tried = Untried(0, 0, <<>>)

\* the candidate space a placement was put in: the one starting at its corner
candidate_of(p, rect) ==
    (CHOOSE c \in {p.spaces[i] : i \in 1..Len(p.spaces)} :
         c.rect.x = rect.x /\ c.rect.y = rect.y).rect

RECURSIVE push_born(_, _, _)
push_born(spaces, splits, s) ==
    IF s > splits.count THEN spaces
    ELSE push_born(Append(spaces, splits.spaces[s]), splits, s + 1)

SplitOrderInsert(w, h) ==
    /\ pc = "split_order" /\ ~panicked
    /\ Len(reqs) < MaxScenario
    /\ \E r \in {SplitPacker_insert(packer, w, h)} :
           /\ packer' = r.packer
           /\ panicked' = r.panic
           /\ placed' = IF r.res.some
                        THEN Append(placed, Placement(w, h, r.res.rect))
                        ELSE placed
           /\ last' = Call("insert", r.res.some)
           /\ reqs' = Append(reqs, Size(w, h))
           /\ IF r.res.some
              THEN \E space \in {candidate_of(packer, r.res.rect)} :
                   \E splits \in {insert_and_split(r.res.rect.w, r.res.rect.h, space)} :
                       /\ born' = push_born(SelectSeq(born, LAMBDA b : b # space),
                                            splits, 1)
                       /\ tried' = [w |-> w, h |-> h, done |-> TRUE,
                                    space |-> space, splits |-> splits,
                                    rect |-> r.res.rect, before |-> born]
              ELSE /\ born' = born
                   /\ tried' = Untried(w, h, born)
    /\ UNCHANGED <<pc, log1, log2, packVars, optVars, charVars, skyVars>>

SplitOrderReset(resize) ==
    /\ pc = "split_order" /\ ~panicked
    /\ reqs # <<>>
    /\ \E p \in {SplitPacker_reset(packer, resize)} :
           /\ packer' = p
           /\ born' = <<Rect(0, 0, p.config.max_width, p.config.max_height)>>
    /\ tried' = Untried(0, 0, <<>>)
    /\ placed' = <<>>
    /\ last' = Call("reset", FALSE)
    /\ reqs' = <<>>
    /\ UNCHANGED <<panicked, pc, log1, log2, packVars, optVars, charVars, skyVars>>

NextSplitOrder ==
    \/ \E w \in 1..MaxWidth, h \in 1..MaxHeight : SplitOrderInsert(w, h)
    \/ \E resize \in {NoResize, Resize(OrderBin, OrderBin - 1)} : SplitOrderReset(resize)

SpecSplitOrder == InitSplitOrder /\ [][NextSplitOrder]_vars

\* The skyline packer on a bin of SkyBin by SkyBin, with the request and the
\* result of find_skyline of each insert recorded.
InitSkyline ==
    /\ pc = "skyline_order"
    /\ \E f \in BOOLEAN : packer = SkylinePacker_new(PackerConfig(SkyBin, SkyBin, f))
    /\ panicked = FALSE
    /\ ApiIdle
    /\ ReplayIdle
    /\ PackIdle
    /\ OptIdle
    /\ CharsIdle
    /\ SplitIdle
    /\ SkyIdle

SkylineOrderInsert(w, h) ==
    /\ pc = "skyline_order" /\ ~panicked
    /\ Len(reqs) < MaxScenario
    /\ \E r \in {SkylinePacker_insert(packer, w, h)} :
       \E f \in {find_skyline(packer, w, h)} :
           /\ packer' = r.packer
           /\ panicked' = r.panic
           /\ placed' = IF r.res.some
                        THEN Append(placed, Placement(w, h, r.res.rect))
                        ELSE placed
           /\ last' = Call("insert", r.res.some)
           /\ reqs' = Append(reqs, Size(w, h))
           /\ sought' = [w |-> w, h |-> h, done |-> ~f.panic,
                         before |-> packer.skylines,
                         index |-> f.index, rect |-> f.rect]
    /\ UNCHANGED <<pc, log1, log2, packVars, optVars, charVars, splitVars>>

SkylineOrderReset(resize) ==
    /\ pc = "skyline_order" /\ ~panicked
    /\ reqs # <<>>
    /\ packer' = SkylinePacker_reset(packer, resize)
    /\ sought' = Unsought
    /\ placed' = <<>>
    /\ last' = Call("reset", FALSE)
    /\ reqs' = <<>>
    /\ UNCHANGED <<panicked, pc, log1, log2, packVars, optVars, charVars, splitVars>>

NextSkyline ==
    \/ \E w \in 1..MaxWidth, h \in 1..MaxHeight : SkylineOrderInsert(w, h)
    \/ \E resize \in {NoResize, Resize(SkyBin, SkyBin - 1)} : SkylineOrderReset(resize)

SpecSkyline == InitSkyline /\ [][NextSkyline]_vars

\* insert_and_split on its own: a request and a candidate space are drawn,
\* then the function is applied to them.
InitSplits ==
    /\ pc = "splits"
    /\ packer = SplitPacker_new(PackerConfig(0, 0, FALSE))
    /\ panicked = FALSE
    /\ ApiIdle
    /\ ReplayIdle
    /\ PackIdle
    /\ OptIdle
    /\ CharsIdle
    /\ SkyIdle
    /\ born = <<>>
    /\ \E w \in 0..SplitSide, h \in 0..SplitSide, x \in 0..1, y \in 0..1,
          sw \in 0..SplitSide, sh \in 0..SplitSide :
           tried = [Untried(w, h, <<>>) EXCEPT !.space = Rect(x, y, sw, sh)]

SplitsApply ==
    /\ pc = "splits"
    /\ ~tried.done
    /\ tried' = [tried EXCEPT !.done = TRUE,
                              !.splits = insert_and_split(tried.w, tried.h,
                                                          tried.space)]
    /\ UNCHANGED <<packerVars, pc, apiVars, replayVars, packVars, optVars,
                   charVars, born, skyVars>>

NextSplits == SplitsApply

SpecSplits == InitSplits /\ [][NextSplits]_vars

----------------------------------------------------------------------------
(* The multi-heuristic driver pack (lib.rs). *)

Ordering(x, y) == IF x < y THEN "Less" ELSE IF x = y THEN "Equal" ELSE "Greater"

\* b.pathological_mult() < a.pathological_mult(), where pathological_mult is
\* max_side / min_side * area: compared as fractions, sides being >= 1.
pathological_mult_lt(b, a) ==
    max_side(b) * area(b) * min_side(a) < max_side(a) * area(a) * min_side(b)

RECT_SORT_FUNCTIONS(k, a, b) ==
    CASE k = 1 -> Ordering(area(b), area(a))
      [] k = 2 -> Ordering(perimeter(b), perimeter(a))
      [] k = 3 -> Ordering(Max(b.w, b.h), Max(a.w, a.h))
      [] k = 4 -> Ordering(b.w, a.w)
      [] k = 5 -> Ordering(b.h, a.h)
      [] k = 6 -> IF pathological_mult_lt(b, a) THEN "Less" ELSE "Greater"

\* inputs.sort_by(|a, b| (cmp)(a.size, b.size)): a stable sort that moves an
\* element before another only when the comparator answers Less.
RECURSIVE sort_by_insert(_, _, _)
sort_by_insert(head, e, k) ==
    CHOOSE out \in
      {IF sorted = <<>> THEN <<e>>
       ELSE IF RECT_SORT_FUNCTIONS(k, e.size, sorted[Len(sorted)].size) = "Less"
       THEN Append(sort_by_insert(SubSeq(sorted, 1, Len(sorted) - 1), e, k),
                   sorted[Len(sorted)])
       ELSE Append(sorted, e)
       : sorted \in {head}} : TRUE

RECURSIVE sort_by(_, _)
sort_by(list, k) ==
    CHOOSE out \in
      {IF s = <<>> THEN <<>>
       ELSE sort_by_insert(sort_by(SubSeq(s, 1, Len(s) - 1), k), s[Len(s)], k)
       : s \in {list}} : TRUE

RectInput(size, key) == [size |-> size, key |-> key]

\* the record made with the key of the first input
RectOutput_first_key(rect, a, key) == [rect |-> rect, atlas |-> a, key |-> 1]

RectOutput(rect, a, key) == [rect |-> rect, atlas |-> a, key |-> key]

\* the record put at the front of the list
push_front(list, rec) == <<rec>> \o list

\* current.push(RectOutput { .. })
push(list, rec) == Append(list, rec)

\* current_area <= output_area
improves_or_ties(cur, out) == cur <= out

\* current_area < output_area
improves(cur, out) == cur < out

PackSizes == {Size(w, h) : w \in 1..PackWidth, h \in 1..PackWidth}

RECURSIVE InputLists(_)
InputLists(n) ==
    IF n = 0 THEN {<<>>}
    ELSE LET shorter == InputLists(n - 1)
         IN  shorter \cup
             {Append(l, RectInput(s, n)) :
                 l \in {x \in shorter : Len(x) = n - 1}, s \in PackSizes}

InitPack ==
    /\ pc = "trial"
    /\ \E kind \in Kinds, f \in BOOLEAN :
          packer = Packer_new(kind, PackerConfig(PackWidth, PackHeight, f))
    /\ panicked = FALSE
    /\ ApiIdle
    /\ ReplayIdle
    /\ OptIdle
    /\ CharsIdle
    /\ SplitIdle
    /\ SkyIdle
    /\ inputs \in InputLists(MaxInputs)
    /\ cmp = 1
    /\ iterator = 1
    /\ atlas = 0
    /\ current = <<>>
    /\ current_area = 0
    /\ output = <<>>
    /\ output_area = U64_MAX
    /\ trials = <<>>

\* one turn of the inner loop that offers the refused item again to the next
\* atlas, as long as the atlas counter is not above the number of inputs
atlasing_turn_retry(ins, st) ==
    LET input == ins[st.iterator]
    IN  CHOOSE nxt \in
          {IF r.panic
           THEN [st EXCEPT !.packer = r.packer, !.iterator = st.iterator + 1,
                           !.panic = TRUE]
           ELSE IF r.res.some
           THEN [st EXCEPT !.packer = r.packer, !.iterator = st.iterator + 1,
                           !.current = push(st.current,
                                            RectOutput(r.res.rect, st.atlas,
                                                       input.key))]
           ELSE [st EXCEPT !.packer = Packer_reset(r.packer, NoResize),
                           !.iterator = IF st.atlas <= Len(ins)
                                        THEN st.iterator
                                        ELSE st.iterator + 1,
                           !.atlas = st.atlas + 1,
                           !.current_area = st.current_area
                                            + area(used_area(r.packer))]
           : r \in {Packer_insert(st.packer, input.size.w, input.size.h)}} : TRUE

\* one turn of the inner loop of pack, iterator.next() being Some(input):
\* st is (packer, iterator, atlas, current, current_area)
atlasing_turn(ins, st) ==
    LET input == ins[st.iterator]
    IN  CHOOSE nxt \in
          {IF r.panic
           THEN [st EXCEPT !.packer = r.packer, !.iterator = st.iterator + 1,
                           !.panic = TRUE]
           ELSE IF r.res.some
           THEN [st EXCEPT !.packer = r.packer, !.iterator = st.iterator + 1,
                           !.current = push(st.current,
                                            RectOutput(r.res.rect, st.atlas,
                                                       input.key))]
           ELSE \* use another atlas: break, then packer.reset(None)
                [st EXCEPT !.packer = Packer_reset(r.packer, NoResize),
                           !.iterator = st.iterator + 1,
                           !.atlas = st.atlas + 1,
                           !.current_area = st.current_area
                                            + area(used_area(r.packer))]
           : r \in {Packer_insert(st.packer, input.size.w, input.size.h)}} : TRUE

\* the loops `'atlasing: loop { packer.reset(None); loop { .. } }`, from the
\* inner loop on, until iterator.next() is None (break 'atlasing)
RECURSIVE atlasing(_, _)
atlasing(ins, st) ==
    IF st.iterator > Len(ins) \/ st.panic THEN st
    ELSE CHOOSE end \in {atlasing(ins, nxt) : nxt \in {atlasing_turn(ins, st)}} : TRUE

\* one iteration of `for cmp in RECT_SORT_FUNCTIONS`
PackTrial ==
    /\ pc = "trial" /\ ~panicked
    /\ \E sorted \in {sort_by(inputs, cmp)} :
       \E t \in {atlasing(sorted, [packer |-> Packer_reset(packer, NoResize),
                                   iterator |-> 1, atlas |-> 0, current |-> <<>>,
                                   current_area |-> 0, panic |-> FALSE])} :
       LET total == t.current_area + area(used_area(t.packer))
       IN  /\ inputs' = sorted
           /\ packer' = t.packer
           /\ panicked' = t.panic
           /\ iterator' = t.iterator
           /\ atlas' = t.atlas
           /\ IF t.panic
              THEN /\ current' = t.current
                   /\ current_area' = t.current_area
                   /\ UNCHANGED <<output, output_area, trials, cmp, pc>>
              ELSE /\ current_area' = total
                   /\ trials' = Append(trials, [area |-> total, list |-> t.current])
                   /\ IF improves(total, output_area)
                      THEN /\ output_area' = total
                           /\ output' = t.current
                           /\ current' = output
                      ELSE /\ current' = t.current
                           /\ UNCHANGED <<output_area, output>>
                   /\ cmp' = cmp + 1
                   /\ pc' = IF cmp = 6 THEN "done" ELSE "trial"
    /\ UNCHANGED <<apiVars, replayVars, optVars, charVars, splitVars, skyVars>>

NextPack == PackTrial

SpecPack == InitPack /\ [][NextPack]_vars

\* the for loop of pack is not suspended for ever
SpecPackFair == SpecPack /\ WF_vars(NextPack)

----------------------------------------------------------------------------
(* The bin-size optimizer (optimize.rs), over any Packer.                  *)

\* enum bin_dimension
bin_dimension == {"Both", "Width", "Height"}

\* enum PackingResult.  Two more outcomes stand for the ways the function
\* ends without returning: a failed assert! of the packer, and a u32
\* subtraction below zero (a panic in a build with overflow checks).
PackingResult_Area(a) == [kind |-> "Area", area |-> a]

PackingResult_Size(size) == [kind |-> "Size", size |-> size]

PackingResult_Panic == [kind |-> "Panic"]

PackingResult_Overflow == [kind |-> "Overflow"]

\* `for rect in ordering { .. }` of one attempt, from rect number i on
RECURSIVE insert_ordering(_, _, _, _)
insert_ordering(root, order, i, total_inserted_area) ==
    IF i > Len(order)
    THEN [root |-> root, all_inserted |-> TRUE,
          total_inserted_area |-> total_inserted_area, panic |-> FALSE]
    ELSE CHOOSE out \in
           {IF r.panic
            THEN [root |-> r.packer, all_inserted |-> TRUE,
                  total_inserted_area |-> total_inserted_area, panic |-> TRUE]
            ELSE IF r.res.some
            THEN insert_ordering(r.packer, order, i + 1,
                                 total_inserted_area + order[i].w * order[i].h)
            ELSE \* all_inserted = true; break
                 [root |-> r.packer, all_inserted |-> TRUE,
                  total_inserted_area |-> total_inserted_area, panic |-> FALSE]
            : r \in {Packer_insert(root, order[i].w, order[i].h)}} : TRUE

\* candidate_bin with step taken off the tried dimension
shrink(candidate_bin, step, tried_dimension) ==
    CASE tried_dimension = "Both" -> Size(candidate_bin.w - step,
                                          candidate_bin.h - step)
      [] tried_dimension = "Width" -> Size(candidate_bin.w - step,
                                           candidate_bin.h)
      [] tried_dimension = "Height" -> Size(candidate_bin.w,
                                            candidate_bin.h - step)

\* candidate_bin with step added to the tried dimension
grow(candidate_bin, step, tried_dimension) ==
    CASE tried_dimension = "Both" -> Size(candidate_bin.w + step,
                                          candidate_bin.h + step)
      [] tried_dimension = "Width" -> Size(candidate_bin.w + step,
                                           candidate_bin.h)
      [] tried_dimension = "Height" -> Size(candidate_bin.w,
                                            candidate_bin.h + step)

\* the grown candidate is beyond starting_bin
beyond(candidate_bin, bin, tried_dimension) ==
    CASE tried_dimension = "Both" -> area(candidate_bin) > area(bin)
      [] tried_dimension = "Width" -> candidate_bin.w > bin.w
      [] tried_dimension = "Height" -> candidate_bin.h > bin.h

\* the `loop` of best_packing_for_ordering_impl; st is (candidate_bin, step,
\* tries_before_discarding)
RECURSIVE best_packing_loop(_, _, _, _, _, _)
best_packing_loop(root, order, bin, step_limit, tried_dimension, st) ==
    CHOOSE out \in
      {IF att.panic THEN [root |-> att.root, result |-> PackingResult_Panic]
       ELSE IF att.all_inserted
       THEN \* attempt was successful. Try with a smaller bin.
            IF st.step <= step_limit /\ ~(st.tries_before_discarding > 0)
            THEN [root |-> att.root,
                  result |-> PackingResult_Size(st.candidate_bin)]
            ELSE IF shrink(st.candidate_bin, st.step, tried_dimension).w < 0
                    \/ shrink(st.candidate_bin, st.step, tried_dimension).h < 0
            THEN [root |-> att.root, result |-> PackingResult_Overflow]
            ELSE best_packing_loop(
                   Packer_reset(att.root,
                                Resize(shrink(st.candidate_bin, st.step,
                                              tried_dimension).w,
                                       shrink(st.candidate_bin, st.step,
                                              tried_dimension).h)),
                   order, bin, step_limit, tried_dimension,
                   [candidate_bin |-> shrink(st.candidate_bin, st.step,
                                             tried_dimension),
                    step |-> Max(1, st.step \div 2),
                    tries_before_discarding |->
                        IF st.step <= step_limit
                        THEN st.tries_before_discarding - 1
                        ELSE st.tries_before_discarding])
       ELSE \* Attempt ended with failure. Try with a bigger bin.
            IF beyond(grow(st.candidate_bin, st.step, tried_dimension), bin,
                      tried_dimension)
            THEN [root |-> att.root,
                  result |-> PackingResult_Area(att.total_inserted_area)]
            ELSE best_packing_loop(
                   att.root, order, bin, step_limit, tried_dimension,
                   [st EXCEPT !.candidate_bin = grow(st.candidate_bin, st.step,
                                                     tried_dimension),
                              !.step = Max(1, st.step \div 2)])
       : att \in {insert_ordering(
                    Packer_reset(root, Resize(st.candidate_bin.w,
                                              st.candidate_bin.h)),
                    order, 1, 0)}} : TRUE

best_packing_for_ordering_impl(root, order, bin, step_given, tried_dimension) ==
    LET tries_before_discarding == IF step_given <= 0 THEN -step_given ELSE 0
        step_limit == IF step_given <= 0 THEN 1 ELSE step_given
        candidate_bin ==
            CASE tried_dimension = "Both" -> Size(bin.w \div 2, bin.h \div 2)
              [] tried_dimension = "Width" -> Size(bin.w \div 2, bin.h)
              [] tried_dimension = "Height" -> Size(bin.w, bin.h \div 2)
        starting_step == IF tried_dimension = "Height"
                         THEN candidate_bin.h \div 2
                         ELSE candidate_bin.w \div 2
    IN  best_packing_loop(root, order, bin, step_limit, tried_dimension,
                          [candidate_bin |-> candidate_bin,
                           step |-> starting_step,
                           tries_before_discarding |-> tries_before_discarding])

\* the result of a later phase when it is a Size, else the Size held so far
even_better(best, later) == IF later.kind = "Size" THEN later.size ELSE best

\* the phase did not return
aborted(r) == r.kind \in {"Panic", "Overflow"}

best_packing_for_ordering(root, order, bin, step_given) ==
    CHOOSE out \in
      {IF both.result.kind # "Size" THEN both
       ELSE CHOOSE out2 \in
         {IF aborted(width.result) THEN width
          ELSE CHOOSE out3 \in
            {IF aborted(height.result) THEN height
             ELSE [root |-> height.root,
                   result |-> PackingResult_Size(
                                even_better(even_better(both.result.size,
                                                        width.result),
                                            height.result))]
             : height \in {best_packing_for_ordering_impl(
                             width.root, order,
                             even_better(both.result.size, width.result),
                             step_given, "Height")}} : TRUE
          : width \in {best_packing_for_ordering_impl(
                         both.root, order, both.result.size, step_given,
                         "Width")}} : TRUE
       : both \in {best_packing_for_ordering_impl(root, order, bin, step_given,
                                                  "Both")}} : TRUE

RECURSIVE Orderings(_)
Orderings(n) ==
    IF n = 0 THEN {<<>>}
    ELSE LET shorter == Orderings(n - 1)
         IN  shorter \cup
             {Append(l, Size(w, h)) :
                 l \in {x \in shorter : Len(x) = n - 1},
                 w \in 1..OptSide, h \in 1..OptSide}

\* the orderings, bins and steps tried; the three squares of side 50 with a
\* maximum bin of 200 x 200 are among them
InitOptimize ==
    /\ pc = "optimize"
    /\ \E kind \in Kinds, f \in BOOLEAN :
          packer = Packer_new(kind, PackerConfig(0, 0, f))
    /\ panicked = FALSE
    /\ ApiIdle
    /\ ReplayIdle
    /\ PackIdle
    /\ CharsIdle
    /\ SplitIdle
    /\ SkyIdle
    /\ ordering \in Orderings(MaxOrdering)
                      \cup {<<Size(50, 50), Size(50, 50), Size(50, 50)>>}
    /\ starting_bin \in {Size(w, h) : w \in 1..OptBin, h \in 1..OptBin}
                          \cup {Size(200, 200)}
    /\ discard_step \in {-1, 0, 1}
    /\ result = [kind |-> "None"]
    /\ search = NotSearching

Optimize ==
    /\ pc = "optimize"
    /\ \E r \in {best_packing_for_ordering(packer, ordering, starting_bin,
                                           discard_step)} :
           /\ packer' = r.root
           /\ panicked' = (r.result.kind = "Panic")
           /\ result' = r.result
    /\ pc' = "optimized"
    /\ UNCHANGED <<apiVars, replayVars, packVars, ordering, starting_bin,
                   discard_step, search, charVars, splitVars, skyVars>>

NextOptimize == Optimize

SpecOptimize == InitOptimize /\ [][NextOptimize]_vars

\* The bin-size search loop of best_packing_for_ordering_impl, one round of
\* the loop at a time.

\* the locals on entry to the loop
search_entry(bin, step_given, tried_dimension) ==
    LET candidate_bin ==
            CASE tried_dimension = "Both" -> Size(bin.w \div 2, bin.h \div 2)
              [] tried_dimension = "Width" -> Size(bin.w \div 2, bin.h)
              [] tried_dimension = "Height" -> Size(bin.w, bin.h \div 2)
    IN  [tried_dimension |-> tried_dimension,
         candidate_bin |-> candidate_bin,
         step |-> IF tried_dimension = "Height" THEN candidate_bin.h \div 2
                  ELSE candidate_bin.w \div 2,
         tries_before_discarding |-> IF step_given <= 0 THEN -step_given ELSE 0,
         discard_step |-> IF step_given <= 0 THEN 1 ELSE step_given]

\* one round of the loop: the result when it returns (or ends in a panic),
\* else the locals of the next round
best_packing_round(root, order, bin, st) ==
    CHOOSE out \in
      {IF att.panic
       THEN [root |-> att.root, done |-> TRUE, result |-> PackingResult_Panic,
             st |-> st]
       ELSE IF att.all_inserted
       THEN IF st.step <= st.discard_step /\ ~(st.tries_before_discarding > 0)
            THEN [root |-> att.root, done |-> TRUE,
                  result |-> PackingResult_Size(st.candidate_bin), st |-> st]
            ELSE CHOOSE out2 \in
                   {IF less.w < 0 \/ less.h < 0
                    THEN [root |-> att.root, done |-> TRUE,
                          result |-> PackingResult_Overflow, st |-> st]
                    ELSE [root |-> Packer_reset(att.root, Resize(less.w, less.h)),
                          done |-> FALSE, result |-> [kind |-> "None"],
                          st |-> [st EXCEPT
                                    !.candidate_bin = less,
                                    !.step = Max(1, st.step \div 2),
                                    !.tries_before_discarding =
                                        IF st.step <= st.discard_step
                                        THEN st.tries_before_discarding - 1
                                        ELSE st.tries_before_discarding]]
                    : less \in {shrink(st.candidate_bin, st.step,
                                       st.tried_dimension)}} : TRUE
       ELSE CHOOSE out3 \in
              {IF beyond(more, bin, st.tried_dimension)
               THEN [root |-> att.root, done |-> TRUE,
                     result |-> PackingResult_Area(att.total_inserted_area),
                     st |-> st]
               ELSE [root |-> att.root, done |-> FALSE,
                     result |-> [kind |-> "None"],
                     st |-> [st EXCEPT !.candidate_bin = more,
                                       !.step = Max(1, st.step \div 2)]]
               : more \in {grow(st.candidate_bin, st.step,
                                st.tried_dimension)}} : TRUE
       : att \in {insert_ordering(
                    Packer_reset(root, Resize(st.candidate_bin.w,
                                              st.candidate_bin.h)),
                    order, 1, 0)}} : TRUE

InitSearch ==
    /\ pc = "search"
    /\ \E kind \in Kinds : packer = Packer_new(kind, PackerConfig(0, 0, FALSE))
    /\ panicked = FALSE
    /\ ApiIdle
    /\ ReplayIdle
    /\ PackIdle
    /\ CharsIdle
    /\ SplitIdle
    /\ SkyIdle
    /\ ordering \in {<<>>, <<Size(1, 1)>>, <<Size(2, 1), Size(1, 2)>>}
    /\ starting_bin \in {Size(w, h) : w \in 1..SearchBin, h \in 1..SearchBin}
    /\ discard_step \in {-2, -1, 0, 1, 2}
    /\ result = [kind |-> "None"]
    /\ \E tried_dimension \in bin_dimension :
           search = search_entry(starting_bin, discard_step, tried_dimension)

SearchRound ==
    /\ pc = "search"
    /\ \E r \in {best_packing_round(packer, ordering, starting_bin, search)} :
           /\ packer' = r.root
           /\ panicked' = (r.result.kind = "Panic")
           /\ result' = r.result
           /\ search' = r.st
           /\ pc' = IF r.done THEN "searched" ELSE "search"
    /\ UNCHANGED <<apiVars, replayVars, packVars, ordering, starting_bin,
                   discard_step, charVars, splitVars, skyVars>>

NextSearch == SearchRound

SpecSearch == InitSearch /\ [][NextSearch]_vars

\* the caller keeps running the loop
SpecSearchFair == SpecSearch /\ WF_vars(NextSearch)

----------------------------------------------------------------------------
(* Chars, the peekable character iterator (chars.rs).  A str is the        *)
(* sequence of its UTF-8 bytes; `iter` is the number of bytes consumed and *)
(* `ptr` an offset into the source, or "null".                             *)

CharNone == [some |-> FALSE]

CharSome(c) == [some |-> TRUE, ch |-> c]

\* the UTF-8 bytes of one code point, as a str holds them
utf8(cp) ==
    IF cp < 128 THEN <<cp>>
    ELSE IF cp < 2048 THEN <<192 + (cp \div 64), 128 + (cp % 64)>>
    ELSE IF cp < 65536
    THEN <<224 + (cp \div 4096), 128 + ((cp \div 64) % 64), 128 + (cp % 64)>>
    ELSE <<240 + (cp \div 262144), 128 + ((cp \div 4096) % 64),
           128 + ((cp \div 64) % 64), 128 + (cp % 64)>>

RECURSIVE as_bytes(_)
as_bytes(str) == IF str = <<>> THEN <<>> ELSE utf8(Head(str)) \o as_bytes(Tail(str))

\* (byte & (0x7F >> width)) as u32
utf8_first_byte(byte, width) ==
    byte % (CASE width = 2 -> 32 [] width = 3 -> 16 [] width = 4 -> 8)

\* (ch << 6) | (byte & CONT_MASK): the low six bits of ch << 6 are clear
utf8_acc_cont_byte(ch, byte) == (ch * 64) + (byte % 64)

\* next_code_point on the bytes after the first `iter` ones: the code point
\* and the bytes consumed after it.  The or-ed fields do not overlap.
next_code_point(bytes, iter) ==
    IF iter >= Len(bytes) THEN [res |-> CharNone, iter |-> iter]
    ELSE LET x == bytes[iter + 1]
             init == utf8_first_byte(x, 2)
         IN  IF x < 128 THEN [res |-> CharSome(x), iter |-> iter + 1]
             ELSE LET y == bytes[iter + 2]
                  IN  IF x >= 224
                      THEN LET z == bytes[iter + 3]
                               y_z == utf8_acc_cont_byte(y % 64, z)
                           IN  IF x >= 240
                               THEN LET w == bytes[iter + 4]
                                    IN  [res |-> CharSome(
                                                   ((init % 8) * 262144)
                                                   + utf8_acc_cont_byte(y_z, w)),
                                         iter |-> iter + 4]
                               ELSE [res |-> CharSome((init * 4096) + y_z),
                                     iter |-> iter + 3]
                      ELSE [res |-> CharSome(utf8_acc_cont_byte(init, y)),
                            iter |-> iter + 2]

\* next() that advances first and returns the new head
Chars_next_eager(c) ==
    LET d == next_code_point(c.src, c.iter)
    IN  [chars |-> [c EXCEPT !.ptr = c.iter, !.ch = d.res, !.iter = d.iter],
         ret |-> d.res]

\* Iterator::next: the Chars after the call and the value returned
Chars_next(c) ==
    LET d == next_code_point(c.src, c.iter)
    IN  [chars |-> [c EXCEPT !.ptr = c.iter, !.ch = d.res, !.iter = d.iter],
         ret |-> c.ch]

Chars_from(src) ==
    Chars_next([src |-> src, iter |-> 0, ptr |-> "null", ch |-> CharNone]).chars

Chars_head(c) == c.ch

\* one character of each encoded width: a, e-acute, the euro sign, U+1F600
CodePoints == {97, 233, 8364, 128512}

RECURSIVE Strings(_)
Strings(n) ==
    IF n = 0 THEN {<<>>}
    ELSE LET shorter == Strings(n - 1)
         IN  shorter \cup {Append(t, c) : t \in {x \in shorter : Len(x) = n - 1},
                                          c \in CodePoints}

InitChars ==
    /\ pc = "chars"
    /\ \E kind \in Kinds : packer = Packer_new(kind, PackerConfig(0, 0, FALSE))
    /\ panicked = FALSE
    /\ ApiIdle
    /\ ReplayIdle
    /\ PackIdle
    /\ OptIdle
    /\ SplitIdle
    /\ SkyIdle
    /\ text \in Strings(MaxStr)
    /\ chars = Chars_from(as_bytes(text))
    /\ yielded = <<>>

\* chars.next(), called until None has come back twice
CharsNext ==
    /\ pc = "chars"
    /\ Len(yielded) < Len(text) + 2
    /\ \E r \in {Chars_next(chars)} :
           /\ chars' = r.chars
           /\ yielded' = Append(yielded, r.ret)
    /\ UNCHANGED <<packerVars, pc, apiVars, replayVars, packVars, optVars, text,
                   splitVars, skyVars>>

NextChars == CharsNext

SpecChars == InitChars /\ [][NextChars]_vars

----------------------------------------------------------------------------
(* Properties. *)

Disjoint(a, b) ==
    \/ a.x + a.w <= b.x
    \/ b.x + b.w <= a.x
    \/ a.y + a.h <= b.y
    \/ b.y + b.h <= a.y

Contained(r, config) ==
    r.x + r.w <= config.max_width /\ r.y + r.h <= config.max_height

FailedInsertStep == last'.op = "insert" /\ ~last'.some

\* C1: the rectangles returned by successful inserts since new or the last
\* reset are pairwise disjoint, for all three packers, failed inserts and
\* resets interleaved.
NoOverlap ==
    \A i \in 1..Len(placed) : \A j \in 1..Len(placed) :
        i < j => Disjoint(placed[i].rect, placed[j].rect)

\* a failed insert after three placements
NoOverlapWitness == Len(placed) >= 3 /\ last = Call("insert", FALSE)

\* C2: every rectangle a SplitPacker returns lies within max_width x
\* max_height of the bounds in effect, straight after new as well as after
\* reset.
SplitContainment ==
    packer.kind = "split" =>
        \A i \in 1..Len(placed) : Contained(placed[i].rect, packer.config)

\* C3: every rectangle a SkylinePacker or StripPacker returns lies within
\* max_width x max_height of the bounds in effect.
SkylineStripContainment ==
    packer.kind \in {"skyline", "strip"} =>
        \A i \in 1..Len(placed) : Contained(placed[i].rect, packer.config)

\* a skyline holding two rectangles, one of them reaching the far corner
SkylineStripContainmentWitness ==
    /\ packer.kind = "skyline"
    /\ Len(placed) >= 2
    /\ \E i \in 1..Len(placed) :
          /\ placed[i].rect.x + placed[i].rect.w = packer.config.max_width
          /\ placed[i].rect.y + placed[i].rect.h = packer.config.max_height

\* C4: a returned rectangle has the requested (w, h), or (h, w) when flipped,
\* and is flipped only when allow_flipping is set.
SizeConserved ==
    \A i \in 1..Len(placed) :
        LET req == placed[i].req
            rect == placed[i].rect
        IN  /\ ~rect.flipped => rect.w = req.w /\ rect.h = req.h
            /\ rect.flipped => rect.w = req.h /\ rect.h = req.w
            /\ rect.flipped => packer.config.allow_flipping

\* a flipped placement of a rectangle that is not a square
SizeConservedWitness ==
    \E i \in 1..Len(placed) :
        placed[i].rect.flipped /\ placed[i].req.w # placed[i].req.h

\* C6: a StripPacker::insert that returns None leaves cursor, row_height and
\* used_area as they were.
StripFailedInsertKeepsState ==
    [][(packer.kind = "strip" /\ FailedInsertStep) =>
          /\ packer'.cursor = packer.cursor
          /\ packer'.row_height = packer.row_height
          /\ packer'.used_area = packer.used_area]_vars

\* C7: a SplitPacker or SkylinePacker insert that returns None leaves the
\* packer (free spaces or skyline segments, bounds, used_area) as it was.
FailedInsertKeepsLists ==
    [][(packer.kind \in {"split", "skyline"} /\ FailedInsertStep) =>
          packer' = packer]_vars

\* a split or skyline packer that holds a rectangle and has just refused one
FailedInsertKeepsListsWitness ==
    /\ packer.kind \in {"split", "skyline"}
    /\ Len(placed) >= 1
    /\ last = Call("insert", FALSE)

\* C8: after reset(None) the same requests get the same results as they got
\* on the freshly constructed packer.
ReplayIdentical == \A i \in 1..Len(log2) : log2[i] = log1[i]

\* the size fits an atlas that holds nothing, in an allowed orientation
FitsEmpty(size) ==
    Packer_insert(Packer_reset(packer, NoResize), size.w, size.h).res.some

\* C5: when every input fits an empty atlas, the list pack returns holds
\* exactly one record for every input.
PackKeepsEveryInput ==
    (pc = "done" /\ \A i \in 1..Len(inputs) : FitsEmpty(inputs[i].size)) =>
        \A i \in 1..Len(inputs) :
            Cardinality({j \in 1..Len(output) : output[j].key = inputs[i].key}) = 1

\* the earliest trial among those of the lowest area total
BestTrial ==
    CHOOSE k \in 1..Len(trials) :
        /\ \A j \in 1..Len(trials) : trials[k].area <= trials[j].area
        /\ \A j \in 1..(k - 1) : trials[j].area > trials[k].area

\* C9: pack returns the list of the trial of the lowest area total, the
\* earliest one when several tie.
PackReturnsBestTrial == pc = "done" => output = trials[BestTrial].list

\* a later trial beat the first one, and a trial after the winner tied with
\* it on another list
PackReturnsBestTrialWitness ==
    /\ pc = "done"
    /\ BestTrial > 1
    /\ \E j \in (BestTrial + 1)..Len(trials) :
          /\ trials[j].area = trials[BestTrial].area
          /\ trials[j].list # trials[BestTrial].list

\* C10: in the list pack returns, atlas indices never decrease.
PackAtlasMonotonic ==
    pc = "done" =>
        \A i \in 1..(Len(output) - 1) : output[i + 1].atlas >= output[i].atlas

\* a returned list that goes from one atlas to the next
PackAtlasMonotonicWitness ==
    /\ pc = "done"
    /\ \E i \in 1..(Len(output) - 1) : output[i + 1].atlas > output[i].atlas

\* the size fits no atlas that holds nothing, in any allowed orientation
Unplaceable(size) == ~FitsEmpty(size)

\* C11: in a non-empty list returned by pack the first record has atlas
\* index 0 and every following record has the atlas index of the record
\* before it, or that index plus 1, whatever the inputs.
PackAtlasFromZeroNoGaps ==
    pc = "done" =>
        /\ output # <<>> => output[1].atlas = 0
        /\ \A i \in 1..(Len(output) - 1) :
              output[i + 1].atlas \in {output[i].atlas, output[i].atlas + 1}

\* C12: every record pack returns carries the key of an input whose size is
\* the size of the record's rectangle, swapped when flipped, and no input
\* has more than one record in the returned list.
PackKeysCarried ==
    pc = "done" =>
        /\ \A j \in 1..Len(output) :
              \E i \in 1..Len(inputs) :
                 /\ inputs[i].key = output[j].key
                 /\ inputs[i].size =
                       IF output[j].rect.flipped
                       THEN Size(output[j].rect.h, output[j].rect.w)
                       ELSE Size(output[j].rect.w, output[j].rect.h)
        /\ \A i \in 1..Len(inputs) :
              Cardinality({j \in 1..Len(output) :
                              output[j].key = inputs[i].key}) <= 1

\* a returned list of two records or more, one of them flipped and not
\* square, whose key is not the first one
PackKeysCarriedWitness ==
    /\ pc = "done"
    /\ Len(output) >= 2
    /\ \E j \in 1..Len(output) :
          /\ output[j].rect.flipped
          /\ output[j].rect.w # output[j].rect.h
          /\ output[j].key # 1

\* C13: pack comes to its return for every input list, lists that hold a
\* rectangle fitting no empty atlas included, and no trial opens more
\* atlases than the number of inputs plus one (the atlas counter, one less
\* than the atlases opened, stays at or below the number of inputs).
PackTerminates == <>(pc = "done") /\ [](atlas <= Len(inputs))

\* pack has returned on inputs none of which fits an empty atlas, the last
\* trial having opened an atlas more than there are inputs
PackTerminatesWitness ==
    /\ pc = "done"
    /\ Len(inputs) >= 2
    /\ \A i \in 1..Len(inputs) : Unplaceable(inputs[i].size)
    /\ atlas = Len(inputs)

\* C14: pack does not return a list from which an input that fits no empty
\* atlas in any allowed orientation is missing: such an input makes it fail.
PackFailsOnUnplaceable ==
    pc = "done" =>
        \A i \in 1..Len(inputs) :
            Unplaceable(inputs[i].size) =>
                \E j \in 1..Len(output) : output[j].key = inputs[i].key

\* the largest member of a non-empty set of numbers
SetMax(S) == CHOOSE m \in S : \A n \in S : n <= m

RECURSIVE SumWidths(_)
SumWidths(sk) == IF sk = <<>> THEN 0 ELSE sk[1].w + SumWidths(Tail(sk))

\* C15: for every strategy used_area() is the bounding box of what was placed
\* since new or the last reset: (0, 0) when nothing was, else the largest
\* x + w by the largest y + h of the rectangles returned; failed inserts
\* leave it alone.
UsedAreaIsBoundingBox ==
    used_area(packer) =
        Size(SetMax({0} \cup {placed[i].rect.x + placed[i].rect.w :
                                 i \in 1..Len(placed)}),
             SetMax({0} \cup {placed[i].rect.y + placed[i].rect.h :
                                 i \in 1..Len(placed)}))

\* two rectangles placed, the second one away from the origin, and then an
\* insert refused
UsedAreaIsBoundingBoxWitness ==
    /\ Len(placed) = 2
    /\ placed[2].rect.x + placed[2].rect.y > 0
    /\ last = Call("insert", FALSE)

\* C16: the segments of a SkylinePacker are ordered left to right, the first
\* one starts at x = 0, each one starts where the one before it ends, and
\* their widths sum to max_width, after new, reset and any inserts.
SkylineCoverage ==
    packer.kind = "skyline" =>
        /\ Len(packer.skylines) >= 1
        /\ packer.skylines[1].x = 0
        /\ \A i \in 1..(Len(packer.skylines) - 1) :
              /\ packer.skylines[i].x <= packer.skylines[i + 1].x
              /\ packer.skylines[i + 1].x
                    = packer.skylines[i].x + packer.skylines[i].w
        /\ SumWidths(packer.skylines) = packer.config.max_width

\* a skyline of two segments or more, after two placements
SkylineCoverageWitness ==
    /\ packer.kind = "skyline"
    /\ Len(packer.skylines) >= 2
    /\ Len(placed) >= 2

\* C17: after new, reset and every insert of a SkylinePacker no two
\* consecutive segments have the same y.
SkylineMerged ==
    packer.kind = "skyline" =>
        \A i \in 1..(Len(packer.skylines) - 1) :
            packer.skylines[i].y # packer.skylines[i + 1].y

\* two placements have levelled the skyline into one raised segment
SkylineMergedWitness ==
    /\ packer.kind = "skyline"
    /\ Len(placed) >= 2
    /\ last = Call("insert", TRUE)
    /\ Len(packer.skylines) = 1
    /\ packer.skylines[1].y > 0
    /\ packer.skylines[1].w >= 2

\* C20: on a SkylinePacker of 10 x 10 with flipping enabled, insert(8, 2)
\* followed by insert(2, 8) makes the second insert succeed with flipped set,
\* beside or above the first rectangle and not overlapping it.
SkylineScenarioFlipped ==
    (pc = "scenario" /\ Len(reqs) >= 2
       /\ reqs[1] = Size(8, 2) /\ reqs[2] = Size(2, 8)) =>
        /\ Len(placed) >= 2
        /\ placed[1].req = Size(8, 2)
        /\ placed[2].req = Size(2, 8)
        /\ placed[2].rect.flipped
        /\ Disjoint(placed[1].rect, placed[2].rect)
        /\ \/ placed[2].rect.x >= placed[1].rect.x + placed[1].rect.w
           \/ placed[2].rect.y >= placed[1].rect.y + placed[1].rect.h

\* the two inserts of the scenario have been made, the second one placed
\* straight above the first
SkylineScenarioFlippedWitness ==
    /\ pc = "scenario"
    /\ reqs = <<Size(8, 2), Size(2, 8)>>
    /\ last = Call("insert", TRUE)
    /\ placed[2].rect = Rectf(0, 2, 8, 2, TRUE)

\* every rectangle of the ordering, inserted in order into the packer reset
\* to the bin, is placed
AllPlaced(bin) ==
    LET RECURSIVE Go(_, _)
        Go(p, i) ==
            IF i > Len(ordering) THEN TRUE
            ELSE CHOOSE ok \in
                   {~r.panic /\ r.res.some /\ Go(r.packer, i + 1)
                    : r \in {Packer_insert(p, ordering[i].w, ordering[i].h)}} : TRUE
    IN  Go(Packer_reset(packer, Resize(bin.w, bin.h)), 1)

\* C18: the optimizer returns a Size only for a bin, no larger than the
\* maximum bin, in which every rectangle of the ordering, inserted in order
\* after a reset to that bin, was placed; when no such bin exists what it
\* returns is the Area value.
OptimizerSizeHoldsAll ==
    (pc = "optimized" /\ result.kind = "Size") =>
        /\ result.size.w <= starting_bin.w
        /\ result.size.h <= starting_bin.h
        /\ AllPlaced(result.size)

\* C19: for the rectangles (50,50), (50,50), (50,50), a maximum bin of
\* 200 x 200 and discard_step 0 the optimizer returns a Size of area 7500 to
\* 40000 that is no larger than 150 x 100 or 100 x 150.
OptimizerScenario ==
    (/\ pc = "optimized"
     /\ ordering = <<Size(50, 50), Size(50, 50), Size(50, 50)>>
     /\ starting_bin = Size(200, 200)
     /\ discard_step = 0) =>
        /\ result.kind = "Size"
        /\ area(result.size) >= 7500
        /\ area(result.size) <= 40000
        /\ \/ result.size.w <= 150 /\ result.size.h <= 100
           \/ result.size.w <= 100 /\ result.size.h <= 150

\* C21: on a StripPacker of 50 x 10, after insert(20,5) three times the third
\* rectangle is at x = 0, y = 5 on a new row; a fourth insert(40,5) returns
\* None, and from then on overflowed is set and fill_ratio() is 1.0.
StripScenarioOverflows ==
    (pc = "strip_scenario" /\ Len(reqs) >= 3
       /\ \A i \in 1..3 : reqs[i] = Size(20, 5)) =>
        /\ Len(placed) >= 3
        /\ placed[3].rect = Rectf(0, 5, 20, 5, FALSE)
        /\ (Len(reqs) >= 4 /\ reqs[4] = Size(40, 5)) =>
              /\ Len(placed) = 3
              /\ packer.overflowed
              /\ fill_ratio(packer).num = fill_ratio(packer).den
              /\ fill_ratio(packer).den # 0

\* the four inserts of the scenario have been made, the last one refused
StripScenarioOverflowsWitness ==
    /\ pc = "strip_scenario"
    /\ reqs = <<Size(20, 5), Size(20, 5), Size(20, 5), Size(40, 5)>>
    /\ last = Call("insert", FALSE)
    /\ packer.cursor[2] + packer.row_height > packer.config.max_height

\* C22: on a SplitPacker of 100 x 100 with flipping disabled insert(60,60)
\* returns {x:0, y:0, w:60, h:60} and a second insert(60,60) returns None, no
\* free space being 60 x 60 or more.
SplitScenarioSecondRefused ==
    (pc = "split_scenario" /\ Len(reqs) >= 1 /\ reqs[1] = Size(60, 60)) =>
        /\ Len(placed) >= 1
        /\ placed[1].rect = Rectf(0, 0, 60, 60, FALSE)
        /\ (Len(reqs) = 2 /\ reqs[2] = Size(60, 60)) =>
              /\ last = Call("insert", FALSE)
              /\ Len(placed) = 1
              /\ \A i \in 1..Len(packer.spaces) :
                    packer.spaces[i].rect.w < 60 \/ packer.spaces[i].rect.h < 60

\* the two inserts of the scenario have been made and two free spaces are
\* left, neither of them 60 x 60
SplitScenarioSecondRefusedWitness ==
    /\ pc = "split_scenario"
    /\ reqs = <<Size(60, 60), Size(60, 60)>>
    /\ Len(placed) = 1
    /\ Len(packer.spaces) = 2

\* the value the n-th call of next() is due to return
Due(n) == IF n <= Len(text) THEN CharSome(text[n]) ELSE CharNone

\* C23: Chars is a peekable iterator: in every state head() is the value the
\* next call of next() returns, and the calls of next() return the characters
\* of the source string in order, each once, and None after them.
CharsPeekable ==
    pc = "chars" =>
        /\ \A n \in 1..Len(yielded) : yielded[n] = Due(n)
        /\ Chars_head(chars) = Due(Len(yielded) + 1)

\* a string of three characters encoded in more than one byte each has been
\* read to its end and next() has returned None
CharsPeekableWitness ==
    /\ pc = "chars"
    /\ Len(text) >= 3
    /\ \A n \in 1..Len(text) : text[n] >= 128
    /\ text[1] # text[2]
    /\ Len(yielded) = Len(text) + 1

\* a request of w by h fits the space S as it is
FitsIn(S, w, h) == S.w >= w /\ S.h >= h

\* a request of w by h fits the space S in an orientation the packer may use
Holds(S, w, h, flipping) == FitsIn(S, w, h) \/ (flipping /\ FitsIn(S, h, w))

\* the free spaces of the list `order` that can hold the last request
Holding(order) ==
    {i \in 1..Len(order) :
         Holds(order[i], tried.w, tried.h, packer.config.allow_flipping)}

\* C24: the split packer examines free spaces in reverse insertion order:
\* among the free spaces that can hold the request, the one accepted is the
\* most recently created one.
SplitNewestFirst ==
    (pc = "split_order" /\ tried.done) =>
        tried.space = tried.before[SetMax(Holding(tried.before))]

\* C25: the free-space list of the split packer is sorted by non-decreasing
\* area whenever an insert starts, and a successful insert takes a free space
\* of minimum area among those that can hold the request in an allowed
\* orientation.
SplitSmallestFirst ==
    pc = "split_order" =>
        /\ \A i \in 1..Len(packer.spaces) - 1 :
               packer.spaces[i].area <= packer.spaces[i + 1].area
        /\ tried.done =>
               \A i \in Holding(tried.before) :
                   tried.space.w * tried.space.h
                       <= tried.before[i].w * tried.before[i].h

\* an insert took the smaller of two free spaces of different areas that
\* could both hold the request
SplitSmallestFirstWitness ==
    /\ pc = "split_order" /\ tried.done
    /\ \E i \in Holding(tried.before) :
           tried.space.w * tried.space.h < tried.before[i].w * tried.before[i].h

\* the number of dimensions in which the space S is strictly larger than w by h
Remainders(S, w, h) == (IF S.w > w THEN 1 ELSE 0) + (IF S.h > h THEN 1 ELSE 0)

\* C26: with flipping allowed, when both orientations fit the candidate space
\* the rotated one is chosen exactly when it leaves strictly fewer remainder
\* spaces (the normal one on equal counts), and when only one orientation fits
\* that one is chosen.
SplitOrientation ==
    (pc = "split_order" /\ tried.done /\ packer.config.allow_flipping) =>
        LET S == tried.space
            w == tried.w
            h == tried.h
        IN  /\ (FitsIn(S, w, h) /\ FitsIn(S, h, w)) =>
                   (tried.rect.flipped <=> Remainders(S, h, w) < Remainders(S, w, h))
            /\ (FitsIn(S, w, h) /\ ~FitsIn(S, h, w)) => ~tried.rect.flipped
            /\ (~FitsIn(S, w, h) /\ FitsIn(S, h, w)) => tried.rect.flipped

\* both orientations fitted and the rotated one, leaving fewer remainder
\* spaces, was chosen
SplitOrientationWitness ==
    /\ pc = "split_order" /\ tried.done /\ packer.config.allow_flipping
    /\ FitsIn(tried.space, tried.w, tried.h)
    /\ FitsIn(tried.space, tried.h, tried.w)
    /\ Remainders(tried.space, tried.h, tried.w)
           < Remainders(tried.space, tried.w, tried.h)
    /\ tried.rect.flipped

\* C27: insert_and_split(w, h, S) fails exactly when S is narrower or lower
\* than the request; otherwise it leaves as many remainder spaces as S has
\* dimensions strictly larger than the request, and a single remainder is the
\* unused strip along the other dimension.
SplitsCount ==
    (pc = "splits" /\ tried.done) =>
        LET S == tried.space
            w == tried.w
            h == tried.h
            out == tried.splits
        IN  /\ ~is_valid(out) <=> (S.w < w \/ S.h < h)
            /\ FitsIn(S, w, h) =>
                   /\ out.count = Remainders(S, w, h)
                   /\ (S.w > w /\ S.h = h) =>
                          out.spaces[1] = Rect(S.x + w, S.y, S.w - w, S.h)
                   /\ (S.w = w /\ S.h > h) =>
                          out.spaces[1] = Rect(S.x, S.y + h, S.w, S.h - h)

\* a request as wide as the space and lower than it left one space below it
SplitsCountWitness ==
    /\ pc = "splits" /\ tried.done
    /\ tried.w > 0 /\ tried.h > 0
    /\ tried.space.w = tried.w /\ tried.space.h > tried.h
    /\ tried.splits.count = 1

\* C28: when the request is strictly smaller than S both ways, the remainders
\* are, if free_w > free_h, the strip to the right over the full height and the
\* space below the placement; otherwise the strip below over the full width
\* and the space to the right of the placement.
SplitsAxis ==
    (pc = "splits" /\ tried.done /\ tried.space.w > tried.w
                                 /\ tried.space.h > tried.h) =>
        LET S == tried.space
            w == tried.w
            h == tried.h
            free_w == S.w - w
            free_h == S.h - h
            out == tried.splits
        IN  IF free_w > free_h
            THEN /\ out.spaces[1] = Rect(S.x + w, S.y, free_w, S.h)
                 /\ out.spaces[2] = Rect(S.x, S.y + h, w, free_h)
            ELSE /\ out.spaces[1] = Rect(S.x, S.y + h, S.w, free_h)
                 /\ out.spaces[2] = Rect(S.x + w, S.y, free_w, h)

\* equal leftovers: the big remainder is the strip below over the full width
SplitsAxisWitness ==
    /\ pc = "splits" /\ tried.done
    /\ tried.w > 0 /\ tried.h > 0
    /\ tried.space.w - tried.w = tried.space.h - tried.h
    /\ tried.space.w > tried.w
    /\ tried.splits.count = 2
    /\ tried.splits.spaces[1].w = tried.space.w

\* the segments of the recorded skyline under a rectangle rw wide starting at
\* the left end of segment i
Spanned(i, rw) ==
    {j \in i..Len(sought.before) :
         sought.before[j].x < sought.before[i].x + rw}

\* the y such a rectangle rests at
RestingY(i, rw) == SetMax({sought.before[j].y : j \in Spanned(i, rw)})

\* a rectangle rw by rh starting at segment i stays inside the bin
Feasible(i, rw, rh) ==
    /\ sought.before[i].x + rw <= packer.config.max_width
    /\ RestingY(i, rw) + rh <= packer.config.max_height

\* the feasible placements of the recorded request rotated or not
Candidates(rotated) ==
    LET rw == IF rotated THEN sought.h ELSE sought.w
        rh == IF rotated THEN sought.w ELSE sought.h
    IN  {[index |-> i, bottom |-> RestingY(i, rw) + rh - 1,
          width |-> sought.before[i].w,
          rect |-> Rect(sought.before[i].x, RestingY(i, rw), rw, rh)]
         : i \in {k \in 1..Len(sought.before) : Feasible(k, rw, rh)}}

AllCandidates ==
    Candidates(FALSE)
        \cup (IF packer.config.allow_flipping THEN Candidates(TRUE) ELSE {})

\* C29: find_skyline returns None exactly when no segment and allowed
\* orientation is feasible; otherwise it returns a feasible placement, resting
\* at the highest y of the segments it spans, whose bottom edge is the lowest
\* of all feasible placements and whose starting segment is the narrowest
\* among those with that bottom edge.
FindSkylineBest ==
    (pc = "skyline_order" /\ sought.done) =>
        /\ sought.index = 0 <=> AllCandidates = {}
        /\ sought.index # 0 =>
               \E c \in AllCandidates :
                   /\ c.index = sought.index /\ c.rect = sought.rect
                   /\ \A d \in AllCandidates :
                          /\ c.bottom <= d.bottom
                          /\ d.bottom = c.bottom => c.width <= d.width

\* the placement returned starts at a later and narrower segment than another
\* feasible placement with the same bottom edge
FindSkylineBestWitness ==
    /\ pc = "skyline_order" /\ sought.done /\ sought.index # 0
    /\ \E d \in AllCandidates :
           /\ d.index < sought.index
           /\ d.bottom = bottom(sought.rect)
           /\ d.width > sought.before[sought.index].w

\* C30: with flipping allowed and w # h the normal orientation wins ties: the
\* rotated placement is returned only when it is strictly better (lower bottom
\* edge, or the same bottom edge and a narrower starting segment) than every
\* feasible normal placement.
FindSkylineNormalWinsTies ==
    (pc = "skyline_order" /\ sought.done /\ sought.index # 0
         /\ packer.config.allow_flipping /\ sought.w # sought.h
         /\ sought.rect.w # sought.w) =>
        \A n \in Candidates(FALSE) :
            \/ bottom(sought.rect) < n.bottom
            \/ /\ bottom(sought.rect) = n.bottom
               /\ sought.before[sought.index].w < n.width

\* the sum of the areas of the rectangles of a sequence
RECURSIVE SumAreas(_)
SumAreas(rects) ==
    IF rects = <<>> THEN 0
    ELSE rects[1].w * rects[1].h + SumAreas(Tail(rects))

\* the free spaces of the split packer, as rectangles
FreeSpaces == [i \in 1..Len(packer.spaces) |-> packer.spaces[i].rect]

\* the rectangles placed since new or the last reset
PlacedRects == [i \in 1..Len(placed) |-> placed[i].rect]

\* C31: in every reachable state of a SplitPacker the free spaces are pairwise
\* disjoint, each is disjoint from every rectangle placed since the last
\* reset, each lies inside the initial free space, and the areas of the free
\* spaces and of the placed rectangles add up to the area of the initial free
\* space.
SplitFreeSpaces ==
    pc = "split_order" =>
        /\ \A i \in 1..Len(FreeSpaces) : \A j \in 1..Len(FreeSpaces) :
               i < j => Disjoint(FreeSpaces[i], FreeSpaces[j])
        /\ \A i \in 1..Len(FreeSpaces) : \A j \in 1..Len(PlacedRects) :
               Disjoint(FreeSpaces[i], PlacedRects[j])
        /\ \A i \in 1..Len(FreeSpaces) : Contained(FreeSpaces[i], packer.config)
        /\ SumAreas(FreeSpaces) + SumAreas(PlacedRects)
               = packer.config.max_width * packer.config.max_height

\* three rectangles, one of them flipped, are placed and two free spaces
\* are left
SplitFreeSpacesWitness ==
    /\ pc = "split_order"
    /\ Len(placed) >= 3
    /\ \E i \in 1..Len(placed) : placed[i].rect.flipped
    /\ Len(packer.spaces) >= 2

\* C32: no assertion of SkylinePacker (i < skylines.len() in can_put; the
\* bounds and the left-to-right ordering in split) fails when max_width >= 1,
\* whatever the resets and the inserts of w >= 1 and h >= 1.
SkylineAssertsHold ==
    (packer.kind = "skyline" /\ packer.config.max_width >= 1) => ~panicked

\* a rectangle resting on another one and covering the whole width was placed
\* by a skyline packer, which then refused a request
SkylineAssertsHoldWitness ==
    /\ pc = "api" /\ packer.kind = "skyline" /\ ~panicked
    /\ packer.config.max_width >= 2
    /\ \E i \in 1..Len(placed) :
           placed[i].rect.y >= 1 /\ placed[i].rect.w = packer.config.max_width
    /\ last = Call("insert", FALSE)

\* C33: the overflowed flag of a StripPacker is sticky: from the insert that
\* failed the height check on, overflowed is set and every insert returns
\* None, until reset, which clears the flag.
StripOverflowSticky ==
    pc = "strip_scenario" =>
        /\ packer.overflowed <=> Len(reqs) > Len(placed)
        /\ packer.overflowed => last = Call("insert", FALSE)

\* after an insert that overflowed, a request that an empty packer holds was
\* refused
StripOverflowStickyWitness ==
    /\ pc = "strip_scenario" /\ packer.overflowed
    /\ Len(reqs) >= Len(placed) + 2
    /\ reqs[Len(reqs)] = Size(20, 5)

\* the search loop ends after finitely many rounds, by a return or by a panic
SearchEnds == <>(pc = "searched")

\* C34: the bin-size search loop terminates for every ordering, starting bin,
\* searched dimension and discard_step: after finitely many rounds it returns
\* either a Size or an Area.
SearchReturns == <>(pc = "searched" /\ result.kind \in {"Size", "Area"})

\* C35: during the bin-size search the width and height of the candidate bin
\* never underflow: every candidate_bin.w -= step and candidate_bin.h -= step
\* is applied to a value >= step.
SearchNeverUnderflows ==
    pc \in {"search", "searched"} => result.kind # "Overflow"

=============================================================================
